---- MODULE Spec2Model ----
(***************************************************************************)
(* Model of the zorm QuerySet (src/queryset.go), its MySQL operator table  *)
(* (src/mysql/operators.go) and the Controller entry points that feed it   *)
(* (src/mysql/handler.go).                                                 *)
(*                                                                         *)
(* A Go string is a sequence of one-character strings, so that Split,      *)
(* TrimSpace, HasPrefix, byte slicing and Sprintf are computed as the code *)
(* computes them.  A Go value of type any is a record                      *)
(*   [kind, n, ekind, elems]                                               *)
(* kind  = reflect.ValueOf(v).Kind(), n = the scalar payload, ekind = the  *)
(* Kind() of v.Index(i) for a slice (the static element kind; "interface"  *)
(* for []any), elems = the elements of a slice.                            *)
(***************************************************************************)
EXTENDS Integers, Sequences, FiniteSets, TLC

\* ------------------------------------------------------------------ bounds
\* largest number of pairs in one filter mapping
MaxPairs == 2
\* longest collection value
MaxLen == 3
\* largest number of include plus exclude entries held by one QuerySet
MaxConds == 2
\* largest number of ORDER BY terms accumulated by one QuerySet
MaxOrder == 3

\* ------------------------------------------------------- strings (package strings / fmt)
RECURSIVE Concat(_)
Concat(ss) == IF ss = <<>> THEN <<>> ELSE Head(ss) \o Concat(Tail(ss))

HasPrefix(s, p) == Len(s) >= Len(p) /\ SubSeq(s, 1, Len(p)) = p

HasSuffix(s, p) == Len(s) >= Len(p) /\ SubSeq(s, Len(s) - Len(p) + 1, Len(s)) = p

\* s[k:] of Go
SliceFrom(s, k) == SubSeq(s, k + 1, Len(s))

\* s[:k] of Go
SliceTo(s, k) == SubSeq(s, 1, k)

RECURSIVE TrimLeft(_)
TrimLeft(s) == IF s # <<>> /\ Head(s) = " " THEN TrimLeft(Tail(s)) ELSE s

RECURSIVE TrimRight(_)
TrimRight(s) ==
    IF s # <<>> /\ s[Len(s)] = " " THEN TrimRight(SubSeq(s, 1, Len(s) - 1)) ELSE s

TrimSpace(s) == TrimRight(TrimLeft(s))

RECURSIVE Repeat(_, _)
Repeat(s, k) == IF k <= 0 THEN <<>> ELSE s \o Repeat(s, k - 1)

RECURSIVE Join(_, _)
Join(ss, sep) ==
    IF ss = <<>> THEN <<>>
    ELSE IF Len(ss) = 1 THEN ss[1]
    ELSE ss[1] \o sep \o Join(Tail(ss), sep)

\* strings.Split(s, "__"): cur is the part being read, leftmost separator first
RECURSIVE SplitFrom(_, _)
SplitFrom(s, cur) ==
    IF s = <<>> THEN <<cur>>
    ELSE IF HasPrefix(s, <<"_", "_">>) THEN <<cur>> \o SplitFrom(SliceFrom(s, 2), <<>>)
    ELSE SplitFrom(Tail(s), Append(cur, Head(s)))

Split(s) == SplitFrom(s, <<>>)

RECURSIVE Count(_, _)
Count(s, c) ==
    IF s = <<>> THEN 0 ELSE (IF Head(s) = c THEN 1 ELSE 0) + Count(Tail(s), c)

\* ------------------------------------------------------- literals
sAND == <<"A", "N", "D">>
sOR == <<"O", "R">>
sNOT == <<"N", "O", "T">>
sQ == <<"Q">>
sExact == <<"e", "x", "a", "c", "t">>
sExclude == <<"e", "x", "c", "l", "u", "d", "e">>
sIexact == <<"i", "e", "x", "a", "c", "t">>
sContains == <<"c", "o", "n", "t", "a", "i", "n", "s">>
sIcontains == <<"i", "c", "o", "n", "t", "a", "i", "n", "s">>
sGt == <<"g", "t">>
sGte == <<"g", "t", "e">>
sLt == <<"l", "t">>
sLte == <<"l", "t", "e">>
sStartswith == <<"s", "t", "a", "r", "t", "s", "w", "i", "t", "h">>
sEndswith == <<"e", "n", "d", "s", "w", "i", "t", "h">>
sIstartswith == <<"i", "s", "t", "a", "r", "t", "s", "w", "i", "t", "h">>
sIendswith == <<"i", "e", "n", "d", "s", "w", "i", "t", "h">>
sIn == <<"i", "n">>
sBetween == <<"b", "e", "t", "w", "e", "e", "n">>
sLIKE == <<"L", "I", "K", "E">>
sLIKEBINARY == <<"L", "I", "K", "E", " ", "B", "I", "N", "A", "R", "Y">>
sIN == <<"I", "N">>
sBETWEEN == <<"B", "E", "T", "W", "E", "E", "N">>
sWHERE == <<" ", "W", "H", "E", "R", "E", " ">>
sORDERBY == <<" ", "O", "R", "D", "E", "R", " ", "B", "Y">>
sGROUPBY == <<" ", "G", "R", "O", "U", "P", " ", "B", "Y", " ">>
sASC == <<" ", "A", "S", "C">>
sDESC == <<" ", "D", "E", "S", "C">>
sUU == <<"_", "_">>
\* the character U+0060 (grave accent), which a TLA+ string literal cannot hold
BQ == "BQ"

\* ------------------------------------------------------- package-level tables
ANDOR == <<sAND, sOR>>

BLANKNOT == <<<<>>, sNOT>>

operators ==
    << <<sExact, <<"=">> >>,
       <<sExclude, <<"!", "=">> >>,
       <<sIexact, sLIKE>>,
       <<sContains, sLIKEBINARY>>,
       <<sIcontains, sLIKE>>,
       <<sGt, <<">">> >>,
       <<sGte, <<">", "=">> >>,
       <<sLt, <<"<">> >>,
       <<sLte, <<"<", "=">> >>,
       <<sStartswith, sLIKEBINARY>>,
       <<sEndswith, sLIKEBINARY>>,
       <<sIstartswith, sLIKE>>,
       <<sIendswith, sLIKE>>,
       <<sIn, sIN>>,
       <<sBetween, sBETWEEN>> >>

OperatorKeywords == {operators[i][1] : i \in 1..Len(operators)}

\* operators[operator]: a missing key of a Go map reads as the zero value ""
OperatorSQL(operator) ==
    IF operator \in OperatorKeywords
    THEN (CHOOSE e \in {operators[i] : i \in 1..Len(operators)} : e[1] = operator)[2]
    ELSE <<>>

\* ------------------------------------------------------- values of type any
IntV(n) == [kind |-> "int", n |-> n, ekind |-> "", elems |-> <<>>]

MapV == [kind |-> "map", n |-> 0, ekind |-> "", elems |-> <<>>]

SliceV(ekind, elems) == [kind |-> "slice", n |-> 0, ekind |-> ekind, elems |-> elems]

\* the kinds of the scalar case of filterHandler
ScalarKinds ==
    {"string", "bool", "uint", "uint16", "uint32", "uint64",
     "int", "int8", "int16", "int32", "int64", "float32", "float64"}

\* the element kinds the collection case rejects
RejectedElemKinds ==
    {"invalid", "chan", "func", "map", "ptr", "uintptr", "unsafepointer",
     "complex64", "complex128"}

\* ------------------------------------------------------- filterHandler
\* the locals of filterHandler before the first pair
HandlerInit ==
    [filterSql |-> <<>>, filterArgs |-> <<>>, operator |-> <<>>, flag |-> 0,
     panicked |-> FALSE]

\* the branch on len(fl): sets operator and flag, or panics
ParseLookups(st, fl) ==
    IF Len(fl) = 1 THEN [st EXCEPT !.operator = sExact, !.flag = 0]
    ELSE IF Len(fl) = 2 THEN
        IF fl[2] # sQ THEN [st EXCEPT !.operator = fl[2], !.flag = 0]
        ELSE [st EXCEPT !.operator = sExact, !.flag = 1]
    ELSE IF Len(fl) = 3 THEN
        IF fl[3] = sQ THEN [st EXCEPT !.operator = fl[2], !.flag = 1]
        ELSE [st EXCEPT !.panicked = TRUE]
    ELSE st

\* case reflect.String, reflect.Bool, ...: one quoted comparison
ScalarCase(st, fieldName, op, filedValue) ==
    IF st.operator \in {sIn, sBetween} THEN [st EXCEPT !.panicked = TRUE]
    ELSE [st EXCEPT
            !.filterSql = st.filterSql \o ANDOR[st.flag + 1]
                            \o <<" ", BQ>> \o fieldName \o <<BQ>> \o op \o <<"?", " ">>,
            !.filterArgs = Append(st.filterArgs, filedValue)]

\* the switch on operator of the collection case: the text of the term
SliceTerm(operator, flag, fieldName, op, n) ==
    IF operator \in {sExact, sExclude, sContains, sIcontains} THEN
        <<" ", "(", " ">> \o fieldName \o <<" ">> \o op \o <<" ", "?">>
          \o Repeat(<<" ">> \o ANDOR[flag + 1] \o <<" ">> \o fieldName \o <<" ">> \o op
                      \o <<" ", "?">>, n - 1)
          \o <<" ", ")", " ">>
    ELSE IF operator = sIn THEN
        <<" ">> \o fieldName \o <<" ">> \o BLANKNOT[flag + 1] \o <<" ">> \o op
          \o <<" ", "(", "?">> \o Repeat(<<",", "?">>, n - 1) \o <<")", " ">>
    ELSE
        <<" ">> \o fieldName \o <<" ">> \o BLANKNOT[flag + 1] \o <<" ">> \o op
          \o <<" ", "?", " ", "A", "N", "D", " ", "?", " ">>

\* case reflect.Slice, reflect.Array
SliceCase(st, fieldName, op, filedValue) ==
    IF Len(filedValue.elems) = 0 THEN [st EXCEPT !.panicked = TRUE]
    ELSE IF filedValue.ekind \in RejectedElemKinds THEN [st EXCEPT !.panicked = TRUE]
    ELSE IF st.operator \notin {sExact, sExclude, sContains, sIcontains, sIn, sBetween}
    THEN [st EXCEPT !.filterSql = st.filterSql \o ANDOR[st.flag + 1], !.panicked = TRUE]
    ELSE [st EXCEPT
            !.filterSql = st.filterSql \o ANDOR[st.flag + 1]
                            \o SliceTerm(st.operator, st.flag, fieldName, op,
                                         Len(filedValue.elems)),
            !.filterArgs = st.filterArgs \o filedValue.elems]

\* the switch on v.Kind()
ValueCase(st, fieldName, filedValue) ==
    IF filedValue.kind \in ScalarKinds
    THEN ScalarCase(st, fieldName, OperatorSQL(st.operator), filedValue)
    ELSE IF filedValue.kind \in {"slice", "array"}
    THEN SliceCase(st, fieldName, OperatorSQL(st.operator), filedValue)
    ELSE [st EXCEPT !.panicked = TRUE]

\* one iteration of the range loop; a panic ends the function
HandlePair(st, fieldLookups, filedValue) ==
    IF st.panicked THEN st
    ELSE LET fl == Split(fieldLookups)
             parsed == ParseLookups(st, fl)
         IN  IF parsed.panicked THEN parsed ELSE ValueCase(parsed, fl[1], filedValue)

RECURSIVE HandleAll(_, _)
HandleAll(st, pairs) ==
    IF pairs = <<>> THEN st
    ELSE HandleAll(HandlePair(st, pairs[1].key, pairs[1].value), Tail(pairs))

\* TrimSpace and the removal of the leading combinator
StripLeading(filterSql) ==
    LET t == TrimSpace(filterSql)
    IN  IF t = <<>> THEN [SQL |-> t, panicked |-> FALSE]
        ELSE IF HasPrefix(t, sOR) THEN [SQL |-> SliceFrom(t, 3), panicked |-> Len(t) < 3]
        ELSE IF HasPrefix(t, sAND) THEN [SQL |-> SliceFrom(t, 4), panicked |-> Len(t) < 4]
        ELSE [SQL |-> t, panicked |-> TRUE]

\* filterHandler on the pairs of the mapping in the order the range loop
\* visits them.  partial is the text built when a panic unwound the call.
filterHandler(pairs) ==
    IF Len(pairs) = 0
    THEN [SQL |-> <<>>, Args |-> <<>>, panicked |-> FALSE, partial |-> <<>>]
    ELSE LET st == HandleAll(HandlerInit, pairs)
             fin == StripLeading(st.filterSql)
         IN  IF st.panicked \/ fin.panicked
             THEN [SQL |-> <<>>, Args |-> <<>>, panicked |-> TRUE,
                   partial |-> st.filterSql]
             ELSE [SQL |-> fin.SQL, Args |-> st.filterArgs, panicked |-> FALSE,
                   partial |-> <<>>]

\* ------------------------------------------------------- inputs
fa == <<"a">>
fb == <<"b">>
sFoo == <<"f", "o", "o">>
sX == <<"x">>

\* a lookup key written from its parts
Key(parts) == Join(parts, sUU)

\* []int{1, ..., n}
IntSlice(n) == SliceV("int", [i \in 1..n |-> IntV(i)])

Pair(k, v) == [key |-> k, value |-> v]

\* the (lookup key, value) pairs the filter mappings are built from
Pairs ==
    {Pair(Key(<<fa>>), IntV(7)),
     Pair(Key(<<fa, sGte>>), IntV(7)),
     Pair(Key(<<fb, sQ>>), IntV(8)),
     Pair(Key(<<fa, sIn, sQ>>), IntSlice(2)),
     Pair(Key(<<fb, sContains>>), IntSlice(2)),
     Pair(Key(<<fa, sFoo>>), IntV(7)),
     Pair(Key(<<fb, sFoo>>), IntSlice(1)),
     Pair(Key(<<fa, sIn>>), IntV(7)),
     Pair(Key(<<fa, sIn, sX>>), IntV(7)),
     Pair(Key(<<fb, sGte, sQ, sX>>), IntV(8)),
     Pair(Key(<<fa>>), MapV),
     Pair(Key(<<fb, sIn>>), SliceV("map", <<MapV>>)),
     Pair(Key(<<fb, sIn>>), SliceV("interface", <<IntV(1), MapV>>)),
     Pair(Key(<<fb, sIn>>), SliceV("interface", <<MapV, IntV(1)>>))}
    \cup {Pair(Key(<<fa, sIn>>), IntSlice(n)) : n \in 0..MaxLen}
    \cup {Pair(Key(<<fb, sBetween>>), IntSlice(n)) : n \in 1..MaxLen}

\* a Go map holds one value per key
IsMapping(b) == \A p \in b, q \in b : p.key = q.key => p = q

MappingsOf(ps) == {b \in SUBSET ps : Cardinality(b) <= MaxPairs /\ IsMapping(b)}

Batches == MappingsOf(Pairs)

\* the orders in which a range loop may visit the pairs of a mapping
Orders(b) ==
    IF b = {} THEN {<<>>}
    ELSE {s \in [1..Cardinality(b) -> b] : \A i, j \in 1..Cardinality(b) : s[i] = s[j] => i = j}

\* the pairs the QuerySet scenarios filter by
QSPairs ==
    {Pair(Key(<<fa, sIn>>), IntSlice(2)),
     Pair(Key(<<fb, sQ>>), IntV(8)),
     Pair(Key(<<fa, sIn, sX>>), IntV(7)),
     Pair(Key(<<fa, sBetween>>), IntV(7)),
     Pair(Key(<<fb, sIn>>), IntSlice(0)),
     Pair(Key(<<fa>>), MapV),
     Pair(Key(<<fb, sGte>>), IntSlice(1))}

QSBatches == MappingsOf(QSPairs)

\* raw conditions and argument lists given to Where
Conds == {<<>>, <<"c", ">", "?", " ", "A", "N", "D", " ", "c", "<", "?">>}

ArgLists == {<<>>, <<IntV(5), IntV(6)>>}

\* entries given to OrderByToSQL
OrderEntries == {fa, <<"-">> \o fa, fb, <<" ", "-">> \o fb}

\* the lists of at most n elements of S
RECURSIVE ListsOf(_, _)
ListsOf(S, n) ==
    IF n = 0 THEN {<<>>}
    ELSE ListsOf(S, n - 1) \cup {Append(l, e) : l \in {x \in ListsOf(S, n - 1) : Len(x) = n - 1}, e \in S}

\* column lists given to SelectToSQL and GroupByToSQL
ColumnLists == {<<>>, <<fa>>, <<fb, fa>>}

\* a Go string, and a []string, as values of type any: elems holds the
\* characters of the string, resp. the strings of the slice
StrV(str) == [kind |-> "string", n |-> 0, ekind |-> "", elems |-> str]

StrSlice(strs) == SliceV("string", strs)

fz == <<"z">>

\* Impl.fieldNameMap: the columns of the model the Controller was built for
fieldNameMap == {fa, fb}

\* values given to Controller.GroupBy
GroupByInputs ==
    {StrSlice(<<>>), StrSlice(<<fz>>), StrSlice(<<fa, fz>>),
     StrV(<<>>), StrV(fz), StrV(fb \o <<",", " ">> \o fa),
     IntSlice(1), IntV(7)}

\* ------------------------------------------------------- state
VARIABLES
    selectColumn,      \* QuerySetImpl.selectColumn
    whereCondition,    \* QuerySetImpl.whereCondition
    filterCondition,   \* QuerySetImpl.filterCondition
    excludeCondition,  \* QuerySetImpl.excludeCondition
    orderBySQL,        \* QuerySetImpl.orderBySQL
    groupSQL,          \* QuerySetImpl.groupSQL
    last,              \* the most recent call on the QuerySet and how it ended
    hist,              \* the Filter/Exclude calls that returned, in call order
    lastWhere,         \* whether WhereToSQL was called, and what its latest call received
    orderHist,         \* every entry passed to OrderByToSQL, in call and list order
    groupCols,         \* the column list of the latest GroupByToSQL call, empty before it
    batch,             \* the mapping handed to the compiler
    res1,              \* result of compiling batch
    res2,              \* result of compiling batch a second time
    pc                 \* position of the compile run

qsVars == <<selectColumn, whereCondition, filterCondition, excludeCondition, orderBySQL, groupSQL>>

ghostVars == <<last, hist, lastWhere, orderHist, groupCols>>

compileVars == <<batch, res1, res2, pc>>

vars == <<qsVars, ghostVars, compileVars>>

queryFilter(sql, args) == [SQL |-> sql, Args |-> args]

NoResult == [SQL |-> <<>>, Args |-> <<>>, panicked |-> FALSE, partial |-> <<>>]

\* the condition lists and the assembled clause, as a call finds them
NoSnapshot == [filter |-> <<>>, exclude |-> <<>>, clause |-> << <<>>, <<>> >>]

Call(op, cond, args, result, before) ==
    [op |-> op, cond |-> cond, args |-> args, panicked |-> result.panicked,
     partial |-> result.partial, before |-> before]

\* NewQuerySet: every field at its zero value
NewQuerySet ==
    /\ selectColumn = <<>>
    /\ whereCondition = queryFilter(<<>>, <<>>)
    /\ filterCondition = <<>>
    /\ excludeCondition = <<>>
    /\ orderBySQL = <<>>
    /\ groupSQL = <<>>
    /\ last = Call("NewQuerySet", <<>>, <<>>, NoResult, NoSnapshot)
    /\ hist = <<>>
    /\ lastWhere = [called |-> FALSE, cond |-> <<>>, args |-> <<>>]
    /\ orderHist = <<>>
    /\ groupCols = <<>>

NoCompile ==
    /\ batch = {}
    /\ res1 = NoResult
    /\ res2 = NoResult
    /\ pc = "idle"

\* ------------------------------------------------------- compiling one mapping
InitCompile ==
    /\ NewQuerySet
    /\ batch \in Batches
    /\ res1 = NoResult
    /\ res2 = NoResult
    /\ pc = "input"

Compile ==
    /\ pc = "input"
    /\ \E ord \in Orders(batch) : res1' = filterHandler(ord)
    /\ pc' = "once"
    /\ UNCHANGED <<qsVars, ghostVars, batch, res2>>

Recompile ==
    /\ pc = "once"
    /\ \E ord \in Orders(batch) : res2' = filterHandler(ord)
    /\ pc' = "twice"
    /\ UNCHANGED <<qsVars, ghostVars, batch, res1>>

NextCompile == Compile \/ Recompile

SpecCompile == InitCompile /\ [][NextCompile]_vars

\* ------------------------------------------------------- the WHERE accumulator
RECURSIVE IncludeSQL(_)
IncludeSQL(conds) ==
    IF conds = <<>> THEN <<>>
    ELSE <<"(">> \o conds[1].SQL \o <<")", " ", "A", "N", "D", " ">> \o IncludeSQL(Tail(conds))

RECURSIVE ExcludeSQL(_)
ExcludeSQL(conds) ==
    IF conds = <<>> THEN <<>>
    ELSE <<"N", "O", "T", " ", "(">> \o conds[1].SQL \o <<")", " ", "A", "N", "D", " ">>
           \o ExcludeSQL(Tail(conds))

RECURSIVE AllArgs(_)
AllArgs(conds) == IF conds = <<>> THEN <<>> ELSE conds[1].Args \o AllArgs(Tail(conds))

\* GetQuerySet with the exclude entries assembled before the include entries
GetQuerySet_ExcludesFirst ==
    IF whereCondition.SQL # <<>>
    THEN <<sWHERE \o whereCondition.SQL, whereCondition.Args>>
    ELSE IF Len(filterCondition) = 0 /\ Len(excludeCondition) = 0
    THEN << <<>>, <<>> >>
    ELSE LET sql == ExcludeSQL(excludeCondition) \o IncludeSQL(filterCondition)
         IN  <<sWHERE \o TrimSpace(SliceTo(sql, Len(sql) - 4)),
               AllArgs(excludeCondition) \o AllArgs(filterCondition)>>

\* GetQuerySet consulting the raw override only when nothing was accumulated
GetQuerySet_OverrideLast ==
    IF Len(filterCondition) = 0 /\ Len(excludeCondition) = 0
    THEN IF whereCondition.SQL # <<>>
         THEN <<sWHERE \o whereCondition.SQL, whereCondition.Args>>
         ELSE << <<>>, <<>> >>
    ELSE LET sql == IncludeSQL(filterCondition) \o ExcludeSQL(excludeCondition)
         IN  <<sWHERE \o TrimSpace(SliceTo(sql, Len(sql) - 4)),
               AllArgs(filterCondition) \o AllArgs(excludeCondition)>>

\* GetQuerySet: <<sql, args>>
GetQuerySet ==
    IF whereCondition.SQL # <<>>
    THEN <<sWHERE \o whereCondition.SQL, whereCondition.Args>>
    ELSE IF Len(filterCondition) = 0 /\ Len(excludeCondition) = 0
    THEN << <<>>, <<>> >>
    ELSE LET sql == IncludeSQL(filterCondition) \o ExcludeSQL(excludeCondition)
         IN  <<sWHERE \o TrimSpace(SliceTo(sql, Len(sql) - 4)),
               AllArgs(filterCondition) \o AllArgs(excludeCondition)>>

Snapshot ==
    [filter |-> filterCondition, exclude |-> excludeCondition, clause |-> GetQuerySet]

\* AppendCondition when a failed compilation is logged and its text kept
AppendCondition_KeepsPartial(conds, r) ==
    IF r.panicked
    THEN IF TrimSpace(r.partial) = <<>> THEN conds
         ELSE Append(conds, queryFilter(TrimSpace(r.partial), <<>>))
    ELSE IF r.SQL = <<>> THEN conds
    ELSE Append(conds, queryFilter(r.SQL, r.Args))

\* the statements of FilterToSQL / ExcludeToSQL after filterHandler: they run
\* only when the call returned, and append only a non-empty fragment
AppendCondition(conds, r) ==
    IF r.panicked THEN conds
    ELSE IF r.SQL = <<>> THEN conds
    ELSE Append(conds, queryFilter(r.SQL, r.Args))

Returned(kind, r) ==
    IF ~r.panicked /\ r.SQL # <<>>
    THEN Append(hist, [kind |-> kind, SQL |-> r.SQL, Args |-> r.Args])
    ELSE hist

\* what filterHandler makes of the mappings of QSBatches, in every visiting order
QSResults == {filterHandler(ord) : ord \in UNION {Orders(b) : b \in QSBatches}}

FilterToSQL ==
    \E r \in QSResults :
        /\ filterCondition' = AppendCondition(filterCondition, r)
        /\ Len(filterCondition') + Len(excludeCondition) <= MaxConds
        /\ hist' = Returned("include", r)
        /\ last' = Call("FilterToSQL", <<>>, <<>>, r, Snapshot)
        /\ UNCHANGED <<selectColumn, whereCondition, excludeCondition, orderBySQL,
                       groupSQL, lastWhere, orderHist, groupCols, compileVars>>

ExcludeToSQL ==
    \E r \in QSResults :
        /\ excludeCondition' = AppendCondition(excludeCondition, r)
        /\ Len(filterCondition) + Len(excludeCondition') <= MaxConds
        /\ hist' = Returned("exclude", r)
        /\ last' = Call("ExcludeToSQL", <<>>, <<>>, r, Snapshot)
        /\ UNCHANGED <<selectColumn, whereCondition, filterCondition, orderBySQL,
                       groupSQL, lastWhere, orderHist, groupCols, compileVars>>

\* p.whereCondition.SQL = cond; p.whereCondition.Args = args
SetWhere(cond, args) ==
    /\ whereCondition' = queryFilter(cond, args)
    /\ lastWhere' = [called |-> TRUE, cond |-> cond, args |-> args]

WhereToSQL ==
    \E cond \in Conds, args \in ArgLists :
        /\ SetWhere(cond, args)
        /\ last' = Call("WhereToSQL", cond, args, NoResult, NoSnapshot)
        /\ UNCHANGED <<selectColumn, filterCondition, excludeCondition, orderBySQL,
                       groupSQL, hist, orderHist, groupCols, compileVars>>

\* what m.qs.WhereToSQL(cond, args) receives as its variadic parameter when
\* args is handed over as one value: a list holding the slice
Forwarded(args) == <<SliceV("interface", args)>>

\* Impl.Where
Where ==
    \E cond \in Conds, args \in ArgLists :
        /\ SetWhere(cond, Forwarded(args))
        /\ last' = Call("Where", cond, args, NoResult, NoSnapshot)
        /\ UNCHANGED <<selectColumn, filterCondition, excludeCondition, orderBySQL,
                       groupSQL, hist, orderHist, groupCols, compileVars>>

\* Impl.Reset: m.qs = NewQuerySet(...)
Reset ==
    /\ last.op # "NewQuerySet"
    /\ selectColumn' = <<>>
    /\ whereCondition' = queryFilter(<<>>, <<>>)
    /\ filterCondition' = <<>>
    /\ excludeCondition' = <<>>
    /\ orderBySQL' = <<>>
    /\ groupSQL' = <<>>
    /\ last' = Call("NewQuerySet", <<>>, <<>>, NoResult, NoSnapshot)
    /\ hist' = <<>>
    /\ lastWhere' = [called |-> FALSE, cond |-> <<>>, args |-> <<>>]
    /\ orderHist' = <<>>
    /\ groupCols' = <<>>
    /\ UNCHANGED compileVars

InitQS == NewQuerySet /\ NoCompile

NextWhere == FilterToSQL \/ ExcludeToSQL \/ WhereToSQL \/ Where \/ Reset

SpecWhere == InitQS /\ [][NextWhere]_vars

\* ------------------------------------------------------- ORDER BY, SELECT, GROUP BY
\* the text one loop iteration of OrderByToSQL appends, given the running asc
OrderTerm(by, asc) ==
    LET t == TrimSpace(by)
        col == IF HasPrefix(t, <<"-">>) THEN SliceFrom(t, 1) ELSE t
    IN  <<",">> \o (IF asc THEN <<" ", BQ>> \o col \o <<BQ>> \o sASC
                    ELSE <<" ", BQ>> \o col \o <<BQ>> \o sDESC)

\* asc after the prefix test of one loop iteration
AscAfter(by, asc) == IF HasPrefix(TrimSpace(by), <<"-">>) THEN FALSE ELSE asc

\* the loop of OrderByToSQL: asc is declared before the loop
RECURSIVE OrderLoop(_, _, _)
OrderLoop(sql, orderBy, asc) ==
    IF orderBy = <<>> THEN sql
    ELSE LET a == AscAfter(orderBy[1], asc)
         IN  OrderLoop(sql \o OrderTerm(orderBy[1], a), Tail(orderBy), a)

OrderByText(sql, orderBy) ==
    IF Len(orderBy) <= 0 THEN sql
    ELSE LET out == OrderLoop(sql, orderBy, TRUE)
         IN  IF HasSuffix(out, <<",">>) THEN SliceTo(out, Len(out) - 1) ELSE out

OrderByToSQL ==
    \E orderBy \in ListsOf(OrderEntries, MaxOrder) :
        /\ Len(orderHist) + Len(orderBy) <= MaxOrder
        /\ orderBySQL' = OrderByText(orderBySQL, orderBy)
        /\ orderHist' = orderHist \o orderBy
        /\ last' = Call("OrderByToSQL", <<>>, orderBy, NoResult, NoSnapshot)
        /\ UNCHANGED <<selectColumn, whereCondition, filterCondition, excludeCondition,
                       groupSQL, hist, lastWhere, groupCols, compileVars>>

GetOrderBySQL ==
    IF HasPrefix(orderBySQL, <<",">>) THEN sORDERBY \o SliceFrom(orderBySQL, 1) ELSE <<>>

SelectToSQL ==
    \E columns \in ColumnLists :
        /\ selectColumn' = Join(columns, <<",">>)
        /\ last' = Call("SelectToSQL", <<>>, columns, NoResult, NoSnapshot)
        /\ UNCHANGED <<whereCondition, filterCondition, excludeCondition, orderBySQL,
                       groupSQL, hist, lastWhere, orderHist, groupCols, compileVars>>

GetSelectSQL == IF selectColumn = <<>> THEN <<"*">> ELSE selectColumn

\* the text GroupByToSQL stores
GroupByText(groupBy) == <<BQ>> \o Join(groupBy, <<BQ, ",", BQ>>) \o <<BQ>>

GroupByToSQL ==
    \E groupBy \in ColumnLists :
        /\ groupSQL' = GroupByText(groupBy)
        /\ groupCols' = groupBy
        /\ last' = Call("GroupByToSQL", <<>>, groupBy, NoResult, NoSnapshot)
        /\ UNCHANGED <<selectColumn, whereCondition, filterCondition, excludeCondition,
                       orderBySQL, hist, lastWhere, orderHist, compileVars>>

GetGroupBySQL == IF groupSQL # <<>> THEN sGROUPBY \o groupSQL ELSE <<>>

\* strings.Split(s, ","): cur is the part being read
RECURSIVE SplitCommaFrom(_, _)
SplitCommaFrom(s, cur) ==
    IF s = <<>> THEN <<cur>>
    ELSE IF Head(s) = "," THEN <<cur>> \o SplitCommaFrom(Tail(s), <<>>)
    ELSE SplitCommaFrom(Tail(s), Append(cur, Head(s)))

\* the switch on v.Kind() of Impl.GroupBy: the requested columns, or an
\* early return (ok = FALSE)
GroupBySlice(groupBy) ==
    IF groupBy.kind \in {"slice", "array"} THEN
        IF ~(groupBy.kind = "slice" /\ groupBy.ekind = "string")
        THEN [ok |-> FALSE, list |-> <<>>]
        ELSE IF Len(groupBy.elems) = 0 THEN [ok |-> FALSE, list |-> <<>>]
        ELSE [ok |-> TRUE, list |-> groupBy.elems]
    ELSE IF groupBy.kind = "string" THEN
        IF groupBy.elems = <<>> THEN [ok |-> FALSE, list |-> <<>>]
        ELSE [ok |-> TRUE, list |-> SplitCommaFrom(groupBy.elems, <<>>)]
    ELSE [ok |-> FALSE, list |-> <<>>]

\* the loop of Impl.GroupBy: the trimmed names found in fieldNameMap
RECURSIVE GroupByChecked(_)
GroupByChecked(groupBySlice) ==
    IF groupBySlice = <<>> THEN <<>>
    ELSE LET by == TrimSpace(groupBySlice[1])
         IN  (IF by \in fieldNameMap THEN <<by>> ELSE <<>>)
               \o GroupByChecked(Tail(groupBySlice))

\* Impl.GroupBy
GroupBy ==
    \E groupBy \in GroupByInputs :
        LET sl == GroupBySlice(groupBy)
        IN  /\ IF sl.ok
               THEN /\ groupSQL' = GroupByText(GroupByChecked(sl.list))
                    /\ groupCols' = GroupByChecked(sl.list)
               ELSE UNCHANGED <<groupSQL, groupCols>>
            /\ last' = Call("GroupBy", <<>>, <<>>, NoResult, NoSnapshot)
            /\ UNCHANGED <<selectColumn, whereCondition, filterCondition, excludeCondition,
                           orderBySQL, hist, lastWhere, orderHist, compileVars>>

NextClause == OrderByToSQL \/ SelectToSQL \/ GroupByToSQL \/ GroupBy \/ Reset

SpecClause == InitQS /\ [][NextClause]_vars

\* ======================================================= properties
Contains(s, sub) ==
    \E i \in 1..(Len(s) - Len(sub) + 1) : SubSeq(s, i, i + Len(sub) - 1) = sub

Compiled == pc # "input" /\ pc # "idle"

\* C1: whenever filterHandler compiles a mapping without failing, the number
\* of arguments it returns equals the number of ? placeholders of the fragment.
C1_ArgsMatchPlaceholders ==
    (Compiled /\ ~res1.panicked) => Count(res1.SQL, "?") = Len(res1.Args)

\* C2 as stated: once WhereToSQL has been called, no include or exclude
\* fragment appears in the clause GetQuerySet assembles.
C2_NoFragmentAfterWhere ==
    lastWhere.called => \A i \in 1..Len(hist) : ~Contains(GetQuerySet[1], hist[i].SQL)

\* C2 amended: while the latest WhereToSQL call gave a non-empty condition,
\* GetQuerySet returns " WHERE " + that condition with the arguments of that
\* call, whatever was filtered or excluded before or after it.
C2_NonEmptyOverrideWins ==
    (lastWhere.called /\ lastWhere.cond # <<>>)
        => GetQuerySet = <<sWHERE \o lastWhere.cond, lastWhere.args>>

C2_Witness ==
    /\ lastWhere.called
    /\ lastWhere.cond # <<>>
    /\ last.op = "FilterToSQL"
    /\ ~last.panicked
    /\ filterCondition # <<>>
    /\ excludeCondition # <<>>

\* C3: after Controller.Where(cond, a1, ..., an) with a non-empty cond,
\* GetQuerySet returns " WHERE " + cond with exactly the arguments a1, ..., an.
C3_WhereKeepsArguments ==
    (last.op = "Where" /\ last.cond # <<>>)
        => GetQuerySet = <<sWHERE \o last.cond, last.args>>

Wrapped(e) ==
    IF e.kind = "include" THEN <<"(">> \o e.SQL \o <<")">>
    ELSE <<"N", "O", "T", " ", "(">> \o e.SQL \o <<")">>

IsInclude(e) == e.kind = "include"

IsExclude(e) == e.kind = "exclude"

\* the clause the returned calls of h call for: includes, then excludes
ExpectedWhere(h) ==
    LET ord == SelectSeq(h, IsInclude) \o SelectSeq(h, IsExclude)
    IN  <<sWHERE \o Join([i \in 1..Len(ord) |-> Wrapped(ord[i])],
                         <<" ", "A", "N", "D", " ">>),
          Concat([i \in 1..Len(ord) |-> ord[i].Args])>>

\* C4: with no raw override in effect and at least one returned non-empty
\* Filter or Exclude call, GetQuerySet is " WHERE " + the include fragments
\* as (f) in call order, then the exclude fragments as NOT (e) in call order,
\* joined by " AND ", with the include arguments followed by the exclude ones.
C4_AssemblyOrder ==
    (lastWhere.cond = <<>> /\ hist # <<>>) => GetQuerySet = ExpectedWhere(hist)

C4_Witness ==
    /\ lastWhere.cond = <<>>
    /\ Len(hist) >= 2
    /\ hist[1].kind = "exclude"
    /\ hist[2].kind = "include"
    /\ Len(hist[1].Args) > 0
    /\ Len(hist[2].Args) > 1

\* C5: compiling the same mapping twice gives the same fragment and the
\* same arguments.
C5_CompileTwiceSame ==
    pc = "twice" => (res1.SQL = res2.SQL /\ res1.Args = res2.Args)

FieldChars == {"a", "b"}

Quoted(s) ==
    \A i \in 1..Len(s) :
        s[i] \in FieldChars => (i > 1 /\ i < Len(s) /\ s[i - 1] = BQ /\ s[i + 1] = BQ)

\* C6: every column identifier of a compiled fragment stands between two
\* grave accents.
C6_IdentifiersQuoted == Compiled => Quoted(res1.SQL)

\* a well-formed key whose operator keyword is not in the operator table
UnknownOperatorKey(k) ==
    LET fl == Split(k)
    IN  /\ Len(fl) \in {2, 3}
        /\ Len(fl) = 3 => fl[3] = sQ
        /\ fl[2] # sQ
        /\ fl[2] \notin OperatorKeywords

\* C7: a mapping holding a key with an unknown operator keyword does not compile.
C7_UnknownOperatorFails ==
    (Compiled /\ \E p \in batch : UnknownOperatorKey(p.key)) => res1.panicked

\* more than 3 parts, or 3 parts whose third is not Q
MalformedKey(k) ==
    LET fl == Split(k) IN Len(fl) > 3 \/ (Len(fl) = 3 /\ fl[3] # sQ)

\* C8: a mapping holding a malformed key does not compile.
C8_MalformedKeyFails ==
    (Compiled /\ \E p \in batch : MalformedKey(p.key)) => res1.panicked

\* the operator keyword a key of at most 3 parts asks for
KeywordOf(k) ==
    LET fl == Split(k)
    IN  IF Len(fl) = 1 THEN sExact
        ELSE IF Len(fl) = 2 /\ fl[2] = sQ THEN sExact
        ELSE fl[2]

\* the failures C9 lists: malformed 3-part key, scalar with in/between, empty
\* collection, unsupported value kind, unsupported collection operator
FailingPair(p) ==
    LET fl == Split(p.key)
        scalar == p.value.kind \in ScalarKinds
        coll == p.value.kind \in {"slice", "array"}
    IN  \/ Len(fl) = 3 /\ fl[3] # sQ
        \/ scalar /\ KeywordOf(p.key) \in {sIn, sBetween}
        \/ coll /\ Len(p.value.elems) = 0
        \/ ~scalar /\ ~coll
        \/ coll /\ KeywordOf(p.key) \notin {sExact, sExclude, sContains, sIcontains, sIn, sBetween}

\* every mapping of QSBatches holding a failing pair fails to compile, in
\* every visiting order
QSFailuresSurface ==
    \A b \in QSBatches : \A ord \in Orders(b) :
        (\E p \in b : FailingPair(p)) => filterHandler(ord).panicked

ExpectedOrderTerm(e) ==
    LET t == TrimSpace(e)
    IN  IF HasPrefix(t, <<"-">>) THEN <<" ", BQ>> \o SliceFrom(t, 1) \o <<BQ>> \o sDESC
        ELSE <<" ", BQ>> \o t \o <<BQ>> \o sASC

\* C10: GetOrderBySQL lists every entry passed so far, in order, comma-joined,
\* each DESC exactly when that entry has a leading -, ASC otherwise.
C10_OrderByPerEntry ==
    GetOrderBySQL =
        (IF orderHist = <<>> THEN <<>>
         ELSE sORDERBY \o Join([i \in 1..Len(orderHist) |-> ExpectedOrderTerm(orderHist[i])],
                               <<",">>))

\* C11: while the current group-by column list is empty GetGroupBySQL returns
\* the empty string, and with no include, no exclude and no override
\* GetQuerySet returns the empty clause.
C11_EmptyAccumulatorEmptyClause ==
    /\ groupCols = <<>> => GetGroupBySQL = <<>>
    /\ (filterCondition = <<>> /\ excludeCondition = <<>> /\ whereCondition.SQL = <<>>)
          => GetQuerySet = << <<>>, <<>> >>

\* a collection holding, at some position, an element that is not a supported scalar
UnsupportedElement(v) ==
    /\ v.kind \in {"slice", "array"}
    /\ \E i \in 1..Len(v.elems) : v.elems[i].kind \notin ScalarKinds

\* C12: a mapping holding a collection with an unsupported element, at any
\* position, does not compile, and no element of it is among the arguments.
C12_UnsupportedElementRejected ==
    (Compiled /\ \E p \in batch : UnsupportedElement(p.value))
        => /\ res1.panicked
           /\ \A i \in 1..Len(res1.Args) : res1.Args[i].kind \in ScalarKinds

\* C13: the fragment filterHandler compiles for a Filter call (FilterToSQL
\* appends it as it is) holds no NOT, whatever the combinators of its pairs;
\* the NOT of an exclude is the one GetQuerySet puts before the parenthesis.
C13_NoNotInIncludeFragment ==
    (Compiled /\ ~res1.panicked) => ~Contains(res1.SQL, sNOT)

====
